---- MODULE Spec2Model ----
(***************************************************************************)
(* GeoDash CityData facade (GeoDash/data/city_manager.py): bootstrap at    *)
(* construction, import_city_data with its recovery path, the lru_cache'd  *)
(* reads and close().  The collaborators whose code is not part of the     *)
(* facade (DatabaseManager, SchemaManager, CityDataImporter, repositories) *)
(* are modelled at their interface, as the specification describes them.   *)
(***************************************************************************)
EXTENDS Integers, Sequences, FiniteSets, TLC

\* ------------------------------------------------------------------ bounds
\* The source dataset is written in this many batches, one record a batch.
NumBatches == 2
\* API calls (import_city_data, reads, close) one Facade makes once built.
MaxCalls == 3

Facades == {1, 2}
Procs == {1, 2}
Dataset == 1 .. NumBatches
None == "None"

VARIABLES
    rows,         \* city_data: the set of record ids stored (id is the primary key)
    hasLocal,     \* a default source file exists in the data directory
    net,          \* "down": every download fails; "flaky": each may fail or not
    faulted,      \* history: some environment fault (not a key conflict) happened
    initRows,     \* history: the store's contents before any Facade was built
    procOf,       \* the OS process each Facade lives in
    workerEnv,    \* GUNICORN_WORKER_ID of each process ("absent" when unset)
    pc,           \* where each Facade's current call stands
    dbPersistent, \* DatabaseManager(db_uri, persistent=...) of each Facade
    persistent,   \* self.persistent, "unset" until __init__ reaches line 85
    conn,         \* the connection handle: "none", "open", "closed"
    csvGiven,     \* the running import_city_data call got an explicit csv_path
    idx,          \* batches the running import_from_csv has written
    log,          \* the writes the running / last import_city_data call made
    ret,          \* what the last import_city_data call returned ("running" inside it)
    popAtEntry,   \* the store held rows when the running / last call was entered
    ctorLog,      \* the bootstrap steps __init__ took
    calls,        \* API calls made on the Facade since it was built
    closeCalls,   \* close() calls among them
    cache,        \* the lru_cache of each cached method, one per process
    lastRead,     \* the last read of each Facade: call, outcome, repository use
    block         \* the with-block over each Facade: "out", "in", "left", "propagated"

bootVars == <<rows, hasLocal, net, faulted, initRows, procOf, workerEnv, pc,
              dbPersistent, persistent, conn, csvGiven, idx, log, ret,
              popAtEntry, ctorLog, calls, closeCalls>>

readVars == <<cache, lastRead>>

bootVarsButCalls == <<rows, hasLocal, net, faulted, initRows, procOf, workerEnv,
                      pc, dbPersistent, persistent, conn, csvGiven, idx, log,
                      ret, popAtEntry, ctorLog, closeCalls>>

vars == <<bootVars, readVars, block>>

\* ------------------------------------------------------------ process role
\* os.environ.get('GUNICORN_WORKER_ID', 'standalone')
worker_id(p) == IF workerEnv[p] = "absent" THEN "standalone" ELSE workerEnv[p]

\* Mutants of line 64: the variable read without its default; the test inverted.
IsWorkerRawEnv(p) == workerEnv[p] # "standalone"

IsWorkerInverted(p) == worker_id(p) = "standalone"

is_worker(p) == worker_id(p) # "standalone"

\* One OS process runs one call at a time: a Facade starts a call only when
\* no other Facade of its process is inside one.
Busy(g) == pc[g] \notin {"new", "ready", "raised"}

CanRun(f) == \A g \in Facades \ {f} : procOf[g] = procOf[f] => ~Busy(g)

\* ------------------------------------------------------------ collaborators
\* SchemaManager.get_table_info()['row_count'] on an open handle
RowCount == Cardinality(rows)

\* A query through the handle of Facade f can be answered at all.
Reachable(f) == conn[f] = "open"

\* download_city_data: possible only when the network is not down
CanDownload == net = "flaky"

\* A Python bool held in an attribute that may also be unset, or a return
\* value that may not exist yet.
PyBool(b) == IF b THEN "True" ELSE "False"

\* -------------------------------------------------------- import_city_data
\* Mutant of lines 107 and 123: the call returns True whatever was imported.
ReturnAlwaysTrue(f, b) ==
    /\ pc' = [pc EXCEPT ![f] = "ready"]
    /\ ret' = [ret EXCEPT ![f] = "True"]
    /\ persistent' = [persistent EXCEPT ![f] = PyBool(dbPersistent[f])]

\* import_city_data returns b; when __init__ made the call, __init__ then
\* reaches line 85 and the Facade is built.
Return(f, b) ==
    /\ pc' = [pc EXCEPT ![f] = "ready"]
    /\ ret' = [ret EXCEPT ![f] = PyBool(b)]
    /\ persistent' = [persistent EXCEPT ![f] = PyBool(dbPersistent[f])]

\* The entry of import_city_data(csv_path): nothing is written yet.
EnterImport(f, given) ==
    /\ pc' = [pc EXCEPT ![f] = "check"]
    /\ csvGiven' = [csvGiven EXCEPT ![f] = given]
    /\ idx' = [idx EXCEPT ![f] = 0]
    /\ log' = [log EXCEPT ![f] = <<>>]
    /\ ret' = [ret EXCEPT ![f] = "running"]
    /\ popAtEntry' = [popAtEntry EXCEPT ![f] = rows # {}]

\* Mutant of line 111: the recovery runs whether or not a path was given.
RecoverAlways(f, lg) ==
    /\ log' = [log EXCEPT ![f] = Append(lg, "except")]
    /\ pc' = [pc EXCEPT ![f] = "download"]
    /\ UNCHANGED <<ret, persistent>>

\* The except clause of lines 108-111 and 126: the exception is logged; the
\* recovery runs only when csv_path is None, else the call returns False.
Recover(f, lg) ==
    /\ log' = [log EXCEPT ![f] = Append(lg, "except")]
    /\ IF csvGiven[f]
       THEN Return(f, FALSE)
       ELSE /\ pc' = [pc EXCEPT ![f] = "download"]
            /\ UNCHANGED <<ret, persistent>>

\* Mutant of line 124: no inner except clause, the exception leaves the call.
RetryUncaught(f) ==
    /\ pc' = [pc EXCEPT ![f] = "ready"]
    /\ ret' = [ret EXCEPT ![f] = "raised"]
    /\ persistent' = [persistent EXCEPT ![f] = PyBool(dbPersistent[f])]

\* The inner except clause of lines 124-126: whatever the recovery raises is
\* logged and the call returns False.
RetryFailed(f) == Return(f, FALSE)

\* Mutant of line 107: a first import that reports 0 rows is treated as a
\* failure and starts the recovery.
FirstImportEmptyRecovers(f) ==
    /\ log' = [log EXCEPT ![f] = Append(@, "import1")]
    /\ faulted' = TRUE
    /\ IF csvGiven[f]
       THEN Return(f, FALSE)
       ELSE /\ pc' = [pc EXCEPT ![f] = "download"]
            /\ UNCHANGED <<ret, persistent>>
    /\ UNCHANGED hasLocal

\* Lines 106-107: import_from_csv returns 0 without raising; imported > 0 is False.
FirstImportEmpty(f) ==
    /\ log' = [log EXCEPT ![f] = Append(@, "import1")]
    /\ faulted' = TRUE
    /\ Return(f, 0 > 0)
    /\ UNCHANGED hasLocal

\* Lines 98-107 up to the first batch: the row-count check, then
\* import_from_csv(csv_path, batch_size, download_if_missing=True) finds its
\* source (the given path, a local default, or a download).
ImportCheck(f) ==
    /\ pc[f] = "check"
    /\ \/ \* the row count cannot be read: the except clause runs
          /\ \/ ~Reachable(f) /\ UNCHANGED faulted
             \/ Reachable(f) /\ faulted' = TRUE
          /\ Recover(f, log[f])
          /\ UNCHANGED hasLocal
       \/ \* count > 0: import not needed
          /\ Reachable(f) /\ RowCount > 0
          /\ Return(f, TRUE)
          /\ UNCHANGED <<log, hasLocal, faulted>>
       \/ \* count = 0: import_from_csv is called
          /\ Reachable(f) /\ RowCount = 0
          /\ \/ \* a source is at hand
                /\ csvGiven[f] \/ hasLocal
                /\ log' = [log EXCEPT ![f] = Append(@, "import1")]
                /\ pc' = [pc EXCEPT ![f] = "ins1"]
                /\ UNCHANGED <<hasLocal, faulted, ret, persistent>>
             \/ \* no local source: download_if_missing fetches one
                /\ ~csvGiven[f] /\ ~hasLocal /\ CanDownload
                /\ log' = [log EXCEPT ![f] = @ \o <<"import1", "fetch">>]
                /\ hasLocal' = TRUE
                /\ pc' = [pc EXCEPT ![f] = "ins1"]
                /\ UNCHANGED <<faulted, ret, persistent>>
             \/ \* the given file is missing, or the download fails: it raises
                /\ csvGiven[f] \/ ~hasLocal
                /\ faulted' = TRUE
                /\ Recover(f, Append(log[f], "import1"))
                /\ UNCHANGED hasLocal
             \/ \* the source holds no usable row: 0 imported, no exception
                /\ csvGiven[f] \/ hasLocal
                /\ FirstImportEmpty(f)
    /\ UNCHANGED <<rows, net, initRows, procOf, workerEnv, dbPersistent, conn,
                   csvGiven, idx, popAtEntry, ctorLog, calls, closeCalls>>
    /\ UNCHANGED <<readVars, block>>

\* One batch of the first import_from_csv (line 106); line 107 after the last.
Insert1(f) ==
    /\ pc[f] = "ins1"
    /\ LET b == idx[f] + 1 IN
       \/ \* the batch is written
          /\ b \notin rows
          /\ rows' = rows \cup {b}
          /\ idx' = [idx EXCEPT ![f] = b]
          /\ IF b = NumBatches
             THEN Return(f, b > 0)
             ELSE UNCHANGED <<pc, ret, persistent>>
          /\ UNCHANGED <<faulted, log>>
       \/ \* the key exists already: the insert raises
          /\ b \in rows
          /\ Recover(f, log[f])
          /\ UNCHANGED <<rows, idx, faulted>>
       \/ \* a row that cannot be parsed or written: the importer raises
          /\ faulted' = TRUE
          /\ Recover(f, log[f])
          /\ UNCHANGED <<rows, idx>>
    /\ UNCHANGED <<hasLocal, net, initRows, procOf, workerEnv, dbPersistent,
                   conn, csvGiven, popAtEntry, ctorLog, calls, closeCalls>>
    /\ UNCHANGED <<readVars, block>>

\* Lines 113-115: download_city_data(force=True)
Download(f) ==
    /\ pc[f] = "download"
    /\ log' = [log EXCEPT ![f] = Append(@, "download")]
    /\ \/ /\ CanDownload
          /\ hasLocal' = TRUE
          /\ pc' = [pc EXCEPT ![f] = "clear"]
          /\ UNCHANGED <<faulted, ret, persistent>>
       \/ /\ faulted' = TRUE
          /\ RetryFailed(f)
          /\ UNCHANGED hasLocal
    /\ UNCHANGED <<rows, net, initRows, procOf, workerEnv, dbPersistent, conn,
                   csvGiven, idx, popAtEntry, ctorLog, calls, closeCalls>>
    /\ UNCHANGED <<readVars, block>>

\* Lines 117-120: DELETE FROM city_data
Clear(f) ==
    /\ pc[f] = "clear"
    /\ \/ /\ Reachable(f)
          /\ rows' = {}
          /\ log' = [log EXCEPT ![f] = Append(@, "clear")]
          /\ idx' = [idx EXCEPT ![f] = 0]
          /\ pc' = [pc EXCEPT ![f] = "ins2"]
          /\ UNCHANGED <<faulted, ret, persistent>>
       \/ \* no cursor can be had
          /\ \/ ~Reachable(f) /\ UNCHANGED faulted
             \/ Reachable(f) /\ faulted' = TRUE
          /\ RetryFailed(f)
          /\ UNCHANGED <<rows, log, idx>>
    /\ UNCHANGED <<hasLocal, net, initRows, procOf, workerEnv, dbPersistent,
                   conn, csvGiven, popAtEntry, ctorLog, calls, closeCalls>>
    /\ UNCHANGED <<readVars, block>>

\* Mutant of lines 122-123: the table is cleared and the import is not retried.
Insert2Skipped(f) ==
    /\ pc[f] = "ins2"
    /\ Return(f, FALSE)
    /\ UNCHANGED <<rows, hasLocal, net, faulted, initRows, procOf, workerEnv,
                   dbPersistent, conn, csvGiven, idx, log, popAtEntry, ctorLog,
                   calls, closeCalls>>
    /\ UNCHANGED <<readVars, block>>

\* Lines 122-123: import_from_csv(csv_path, batch_size, download_if_missing=False),
\* a batch at a time.
Insert2(f) ==
    /\ pc[f] = "ins2"
    /\ log' = [log EXCEPT ![f] = IF idx[f] = 0 THEN Append(@, "import2") ELSE @]
    /\ LET b == idx[f] + 1 IN
       \/ /\ b \notin rows
          /\ rows' = rows \cup {b}
          /\ idx' = [idx EXCEPT ![f] = b]
          /\ IF b = NumBatches
             THEN Return(f, b > 0)
             ELSE UNCHANGED <<pc, ret, persistent>>
          /\ UNCHANGED faulted
       \/ \* the key exists already: the insert raises
          /\ b \in rows
          /\ RetryFailed(f)
          /\ UNCHANGED <<rows, idx, faulted>>
       \/ \* the file cannot be read or a row cannot be written, or it holds no row
          /\ faulted' = TRUE
          /\ RetryFailed(f)
          /\ UNCHANGED <<rows, idx>>
    /\ UNCHANGED <<hasLocal, net, initRows, procOf, workerEnv, dbPersistent,
                   conn, csvGiven, popAtEntry, ctorLog, calls, closeCalls>>
    /\ UNCHANGED <<readVars, block>>

\* ---------------------------------------------------------------- __init__
\* __init__ is done: line 85
Built(f) ==
    /\ pc' = [pc EXCEPT ![f] = "ready"]
    /\ persistent' = [persistent EXCEPT ![f] = PyBool(dbPersistent'[f])]

\* Lines 48-68: the managers are made; a non-worker ensures the schema.
Construct(f, persist) ==
    /\ pc[f] = "new"
    /\ CanRun(f)
    /\ dbPersistent' = [dbPersistent EXCEPT ![f] = persist]
    /\ conn' = [conn EXCEPT ![f] = "open"]
    /\ IF is_worker(procOf[f])
       THEN /\ Built(f)
            /\ UNCHANGED <<ctorLog, faulted>>
       ELSE /\ ctorLog' = [ctorLog EXCEPT ![f] = Append(@, "ensure")]
            /\ \/ /\ pc' = [pc EXCEPT ![f] = "count"]
                  /\ UNCHANGED faulted
               \/ \* ensure_schema_exists raises: so does __init__
                  /\ pc' = [pc EXCEPT ![f] = "raised"]
                  /\ faulted' = TRUE
            /\ UNCHANGED persistent
    /\ UNCHANGED <<rows, hasLocal, net, initRows, procOf, workerEnv, csvGiven,
                   idx, log, ret, popAtEntry, calls, closeCalls>>
    /\ UNCHANGED <<readVars, block>>

\* Mutant of lines 71-82: no try around the row count, its exception leaves __init__.
CtorCountUncaught(f) ==
    /\ pc[f] = "count"
    /\ \/ /\ RowCount > 0
          /\ ctorLog' = [ctorLog EXCEPT ![f] = Append(@, "count")]
          /\ pc' = [pc EXCEPT ![f] = "ready"]
          /\ persistent' = [persistent EXCEPT ![f] = PyBool(dbPersistent[f])]
          /\ UNCHANGED <<csvGiven, idx, log, ret, popAtEntry, faulted>>
       \/ /\ RowCount = 0
          /\ ctorLog' = [ctorLog EXCEPT ![f] = @ \o <<"count", "import">>]
          /\ EnterImport(f, FALSE)
          /\ UNCHANGED <<persistent, faulted>>
       \/ /\ ctorLog' = [ctorLog EXCEPT ![f] = Append(@, "count")]
          /\ pc' = [pc EXCEPT ![f] = "raised"]
          /\ faulted' = TRUE
          /\ UNCHANGED <<persistent, csvGiven, idx, log, ret, popAtEntry>>
    /\ UNCHANGED <<rows, hasLocal, net, initRows, procOf, workerEnv,
                   dbPersistent, conn, calls, closeCalls>>
    /\ UNCHANGED <<readVars, block>>

\* Mutant of line 73: no test of the count, import_city_data() is always called.
CtorCountImportsAlways(f) ==
    /\ pc[f] = "count"
    /\ ctorLog' = [ctorLog EXCEPT ![f] = @ \o <<"count", "import">>]
    /\ EnterImport(f, FALSE)
    /\ \/ UNCHANGED faulted
       \/ faulted' = TRUE
    /\ UNCHANGED <<rows, hasLocal, net, initRows, procOf, workerEnv,
                   dbPersistent, persistent, conn, calls, closeCalls>>
    /\ UNCHANGED <<readVars, block>>

\* Lines 71-82: the row count; import_city_data() when it is 0 or unreadable.
CtorCount(f) ==
    /\ pc[f] = "count"
    /\ \/ /\ RowCount > 0
          /\ ctorLog' = [ctorLog EXCEPT ![f] = Append(@, "count")]
          /\ pc' = [pc EXCEPT ![f] = "ready"]
          /\ persistent' = [persistent EXCEPT ![f] = PyBool(dbPersistent[f])]
          /\ UNCHANGED <<csvGiven, idx, log, ret, popAtEntry, faulted>>
       \/ /\ RowCount = 0
          /\ ctorLog' = [ctorLog EXCEPT ![f] = @ \o <<"count", "import">>]
          /\ EnterImport(f, FALSE)
          /\ UNCHANGED <<persistent, faulted>>
       \/ \* get_table_info raises: line 80
          /\ ctorLog' = [ctorLog EXCEPT ![f] = @ \o <<"count", "import">>]
          /\ EnterImport(f, FALSE)
          /\ faulted' = TRUE
          /\ UNCHANGED persistent
    /\ UNCHANGED <<rows, hasLocal, net, initRows, procOf, workerEnv,
                   dbPersistent, conn, calls, closeCalls>>
    /\ UNCHANGED <<readVars, block>>

\* ------------------------------------------------------------------ API
\* import_city_data(csv_path) called on a built Facade
CallImport(f, given) ==
    /\ pc[f] = "ready"
    /\ CanRun(f)
    /\ calls[f] < MaxCalls
    /\ calls' = [calls EXCEPT ![f] = @ + 1]
    /\ EnterImport(f, given)
    /\ UNCHANGED <<rows, hasLocal, net, faulted, initRows, procOf, workerEnv,
                   dbPersistent, persistent, conn, ctorLog, closeCalls>>
    /\ UNCHANGED <<readVars, block>>

\* Mutant of line 249: the handle is closed whatever self.persistent says.
CloseAlways(f) ==
    /\ pc[f] = "ready"
    /\ CanRun(f)
    /\ calls[f] < MaxCalls
    /\ calls' = [calls EXCEPT ![f] = @ + 1]
    /\ closeCalls' = [closeCalls EXCEPT ![f] = @ + 1]
    /\ conn' = [conn EXCEPT ![f] = "closed"]
    /\ UNCHANGED <<rows, hasLocal, net, faulted, initRows, procOf, workerEnv,
                   pc, dbPersistent, persistent, csvGiven, idx, log, ret,
                   popAtEntry, ctorLog>>
    /\ UNCHANGED <<readVars, block>>

\* Mutant of lines 248-251: closing a handle that is closed already raises.
CloseRaisesTwice(f) ==
    /\ pc[f] = "ready"
    /\ CanRun(f)
    /\ calls[f] < MaxCalls
    /\ calls' = [calls EXCEPT ![f] = @ + 1]
    /\ closeCalls' = [closeCalls EXCEPT ![f] = @ + 1]
    /\ IF conn[f] = "closed"
       THEN pc' = [pc EXCEPT ![f] = "raised"] /\ UNCHANGED conn
       ELSE /\ IF persistent[f] = "True"
               THEN UNCHANGED conn
               ELSE conn' = [conn EXCEPT ![f] = "closed"]
            /\ UNCHANGED pc
    /\ UNCHANGED <<rows, hasLocal, net, faulted, initRows, procOf, workerEnv,
                   dbPersistent, persistent, csvGiven, idx, log, ret,
                   popAtEntry, ctorLog>>
    /\ UNCHANGED <<readVars, block>>

\* The body of close(), lines 248-251: db_manager.close() unless the Facade
\* has a true self.persistent.
Release(f) ==
    IF conn[f] # "none" /\ (persistent[f] = "unset" \/ persistent[f] = "False")
    THEN conn' = [conn EXCEPT ![f] = "closed"]
    ELSE UNCHANGED conn

\* close() called by the API user
Close(f) ==
    /\ pc[f] = "ready"
    /\ CanRun(f)
    /\ calls[f] < MaxCalls
    /\ calls' = [calls EXCEPT ![f] = @ + 1]
    /\ closeCalls' = [closeCalls EXCEPT ![f] = @ + 1]
    /\ Release(f)
    /\ UNCHANGED <<rows, hasLocal, net, faulted, initRows, procOf, workerEnv,
                   pc, dbPersistent, persistent, csvGiven, idx, log, ret,
                   popAtEntry, ctorLog>>
    /\ UNCHANGED <<readVars, block>>

\* __enter__, lines 254-261: `with facade:` starts, the Facade is returned.
WithEnter(f) ==
    /\ pc[f] = "ready"
    /\ CanRun(f)
    /\ block[f] = "out"
    /\ block' = [block EXCEPT ![f] = "in"]
    /\ UNCHANGED <<bootVars, readVars>>

\* Mutant of line 274: __exit__ calls close() only when the block ended normally.
WithExitCloseOnSuccess(f, exc) ==
    /\ pc[f] = "ready"
    /\ CanRun(f)
    /\ block[f] = "in"
    /\ IF exc
       THEN UNCHANGED <<conn, closeCalls>>
       ELSE /\ closeCalls' = [closeCalls EXCEPT ![f] = @ + 1]
            /\ Release(f)
    /\ block' = [block EXCEPT ![f] = IF exc THEN "propagated" ELSE "left"]
    /\ UNCHANGED <<rows, hasLocal, net, faulted, initRows, procOf, workerEnv,
                   pc, dbPersistent, persistent, csvGiven, idx, log, ret,
                   popAtEntry, ctorLog, calls>>
    /\ UNCHANGED readVars

\* __exit__, lines 263-274: the block ends, normally or with an exception
\* (exc); close() is called and None is returned, so the exception goes on.
WithExit(f, exc) ==
    /\ pc[f] = "ready"
    /\ CanRun(f)
    /\ block[f] = "in"
    /\ closeCalls' = [closeCalls EXCEPT ![f] = @ + 1]
    /\ Release(f)
    /\ block' = [block EXCEPT ![f] = IF exc THEN "propagated" ELSE "left"]
    /\ UNCHANGED <<rows, hasLocal, net, faulted, initRows, procOf, workerEnv,
                   pc, dbPersistent, persistent, csvGiven, idx, log, ret,
                   popAtEntry, ctorLog, calls>>
    /\ UNCHANGED readVars

\* ------------------------------------------------------------------ reads
\* The cached methods and the maxsize of their lru_cache decorators.
MaxsizeSearch == 5000
MaxsizeGetCity == 1000
MaxsizeCountries == 1
MaxsizeStates == 100
MaxsizeCitiesInState == 500

Methods == {"search_cities", "get_city", "get_countries", "get_states",
            "get_cities_in_state"}

Maxsize(m) ==
    CASE m = "search_cities" -> MaxsizeSearch
      [] m = "get_city" -> MaxsizeGetCity
      [] m = "get_countries" -> MaxsizeCountries
      [] m = "get_states" -> MaxsizeStates
      [] m = "get_cities_in_state" -> MaxsizeCitiesInState

\* The records of the dataset: record 1 lies in country "X", the others in "Y";
\* every one is in state "S" and matches the query "a".
CountryOf(i) == IF i = 1 THEN "X" ELSE "Y"
StateOf(i) == "S"

\* A call as written: positional values, then keyword items in call order.
Call(m, pos, kw) == [m |-> m, pos |-> pos, kw |-> kw]

SearchCalls ==
    { Call("search_cities", <<"a">>, <<>>),
      Call("search_cities", <<"a">>, << <<"user_lat", "40.0">> >>) }
\* search_cities("a") written in other ways: the default limit passed
\* positionally, the query passed by keyword.
SearchSpellings ==
    { Call("search_cities", <<"a", "10">>, <<>>),
      Call("search_cities", <<>>, << <<"query", "a">> >>) }
GetCityCalls == { Call("get_city", <<1>>, <<>>) }
CountriesCalls == { Call("get_countries", <<>>, <<>>) }
StatesCalls == { Call("get_states", <<"X">>, <<>>) }
CitiesInStateCalls == { Call("get_cities_in_state", <<"S", "X">>, <<>>) }
CoordinateCalls == { Call("get_cities_by_coordinates", <<0, 0>>, <<>>) }
TableInfoCalls == { Call("get_table_info", <<>>, <<>>) }

\* The parameters of search_cities after self, and their defaults (lines 131-136).
SearchParams == <<"query", "limit", "country", "user_lat", "user_lng", "user_country">>
SearchDefaults == <<None, "10", None, None, None, None>>

\* The value a search_cities call binds to its i-th parameter.
Bound(c, i) ==
    IF i <= Len(c.pos)
    THEN c.pos[i]
    ELSE IF \E j \in 1 .. Len(c.kw) : c.kw[j][1] = SearchParams[i]
         THEN LET j == CHOOSE j \in 1 .. Len(c.kw) : c.kw[j][1] = SearchParams[i]
              IN c.kw[j][2]
         ELSE SearchDefaults[i]

SearchArgs(c) == [i \in 1 .. 6 |-> Bound(c, i)]

\* functools._make_key: self and the positional values, then, when keywords
\* were passed, a marker and each keyword item.
RECURSIVE KwItems(_)
KwItems(kw) ==
    IF kw = <<>> THEN <<>> ELSE <<kw[1][1], kw[1][2]>> \o KwItems(Tail(kw))

\* Mutant of the key: the keyword arguments are left out of it.
MakeKeyNoKw(f, c) == <<f>> \o c.pos

\* Mutant of the key: self is not part of it (a cache on a plain function).
MakeKeyNoSelf(f, c) ==
    <<0>> \o c.pos \o (IF c.kw = <<>> THEN <<>> ELSE <<"kwd_mark">> \o KwItems(c.kw))

MakeKey(f, c) ==
    <<f>> \o c.pos \o (IF c.kw = <<>> THEN <<>> ELSE <<"kwd_mark">> \o KwItems(c.kw))

\* The ids of S in ascending / descending order.
RECURSIVE Ascending(_)
Ascending(S) ==
    IF S = {} THEN <<>>
    ELSE LET lo == CHOOSE x \in S : \A y \in S : x <= y
         IN <<lo>> \o Ascending(S \ {lo})

RECURSIVE Descending(_)
Descending(S) ==
    IF S = {} THEN <<>>
    ELSE LET hi == CHOOSE x \in S : \A y \in S : x >= y
         IN <<hi>> \o Descending(S \ {hi})

Take(s, n) == SubSeq(s, 1, IF Len(s) < n THEN Len(s) ELSE n)

LimitOf(l) == IF l = "1" THEN 1 ELSE 10

\* CityRepository.search: the matches in the country asked for, ranked; a user
\* location re-orders them by proximity; at most limit of them.
Search(a, rs) ==
    LET hits == { i \in rs : a[3] = None \/ CountryOf(i) = a[3] }
        ranked == IF a[4] = None /\ a[5] = None THEN Ascending(hits)
                  ELSE Descending(hits)
    IN Take(ranked, LimitOf(a[2]))

RECURSIVE SortedNames(_)
SortedNames(S) ==
    IF S = {} THEN <<>>
    ELSE IF "X" \in S THEN <<"X">> \o SortedNames(S \ {"X"})
    ELSE LET n == CHOOSE x \in S : TRUE IN <<n>> \o SortedNames(S \ {n})

\* What the repository (or the SchemaManager) answers on the store rs; an
\* absent city is the empty sequence.
Query(c, rs) ==
    CASE c.m = "search_cities" -> Search(SearchArgs(c), rs)
      [] c.m = "get_city" -> IF c.pos[1] \in rs THEN <<c.pos[1]>> ELSE <<>>
      [] c.m = "get_countries" -> SortedNames({ CountryOf(i) : i \in rs })
      [] c.m = "get_states" ->
            SortedNames({ StateOf(i) : i \in { j \in rs : CountryOf(j) = c.pos[1] } })
      [] c.m = "get_cities_in_state" ->
            Ascending({ i \in rs : StateOf(i) = c.pos[1] /\ CountryOf(i) = c.pos[2] })
      [] c.m = "get_cities_by_coordinates" -> Ascending(rs)
      [] c.m = "get_table_info" -> <<Cardinality(rs)>>

\* The position of key k in a cache line, 0 when absent.
Find(line, k) ==
    IF \E i \in 1 .. Len(line) : line[i].key = k
    THEN CHOOSE i \in 1 .. Len(line) : line[i].key = k
    ELSE 0

Without(line, i) == SubSeq(line, 1, i - 1) \o SubSeq(line, i + 1, Len(line))

\* Mutant of the eviction: on overflow the newest entry is dropped.
TrimNewest(line, n) == IF Len(line) > n THEN SubSeq(line, 1, Len(line) - 1) ELSE line

\* lru_cache keeps the maxsize most recently used entries.
Trim(line, n) == IF Len(line) > n THEN Tail(line) ELSE line

\* What a read did: the call, whether it returned (ok) or raised, the value,
\* whether the repository was invoked, and the state of the handle at the call.
Outcome(f, c, ok, val, queried) ==
    [call |-> c, ok |-> ok, val |-> val, queried |-> queried, handle |-> conn[f]]

NoRead == [call |-> Call("none", <<>>, <<>>), ok |-> TRUE, val |-> <<>>,
           queried |-> FALSE, handle |-> "none"]

\* Mutant of the read methods: the body catches what the repository raises and
\* returns an empty result, which the cache then stores.
CachedReadStoresFailure(f, c) ==
    /\ pc[f] = "ready"
    /\ CanRun(f)
    /\ calls[f] < MaxCalls
    /\ calls' = [calls EXCEPT ![f] = @ + 1]
    /\ LET p == procOf[f]
           line == cache[p][c.m]
           k == MakeKey(f, c)
           at == Find(line, k)
           val == IF Reachable(f) THEN Query(c, rows) ELSE <<>>
       IN IF at > 0
          THEN /\ cache' = [cache EXCEPT ![p][c.m] = Append(Without(line, at), line[at])]
               /\ lastRead' = [lastRead EXCEPT ![f] = Outcome(f, c, TRUE, line[at].val, FALSE)]
          ELSE /\ cache' = [cache EXCEPT ![p][c.m] =
                               Trim(Append(line, [key |-> k, val |-> val, call |-> c]),
                                    Maxsize(c.m))]
               /\ lastRead' = [lastRead EXCEPT ![f] = Outcome(f, c, TRUE, val, TRUE)]
    /\ UNCHANGED <<bootVarsButCalls, block>>

\* A call of a method under @lru_cache(maxsize=...): the key is looked up
\* first; the method body, one repository call, runs on a miss only.
CachedRead(f, c) ==
    /\ pc[f] = "ready"
    /\ CanRun(f)
    /\ calls[f] < MaxCalls
    /\ calls' = [calls EXCEPT ![f] = @ + 1]
    /\ LET p == procOf[f]
           line == cache[p][c.m]
           k == MakeKey(f, c)
           at == Find(line, k)
       IN IF at > 0
          THEN /\ cache' = [cache EXCEPT ![p][c.m] = Append(Without(line, at), line[at])]
               /\ lastRead' = [lastRead EXCEPT ![f] = Outcome(f, c, TRUE, line[at].val, FALSE)]
          ELSE IF Reachable(f)
          THEN /\ cache' = [cache EXCEPT ![p][c.m] =
                               Trim(Append(line, [key |-> k, val |-> Query(c, rows), call |-> c]),
                                    Maxsize(c.m))]
               /\ lastRead' = [lastRead EXCEPT ![f] = Outcome(f, c, TRUE, Query(c, rows), TRUE)]
          ELSE \* the repository raises: nothing is stored
               /\ lastRead' = [lastRead EXCEPT ![f] = Outcome(f, c, FALSE, <<>>, TRUE)]
               /\ UNCHANGED cache
    /\ UNCHANGED <<bootVarsButCalls, block>>

\* get_cities_by_coordinates and get_table_info: no cache (lines 175-192, 231-238)
UncachedRead(f, c) ==
    /\ pc[f] = "ready"
    /\ CanRun(f)
    /\ calls[f] < MaxCalls
    /\ calls' = [calls EXCEPT ![f] = @ + 1]
    /\ lastRead' = [lastRead EXCEPT ![f] =
                       IF Reachable(f) THEN Outcome(f, c, TRUE, Query(c, rows), TRUE)
                       ELSE Outcome(f, c, FALSE, <<>>, TRUE)]
    /\ UNCHANGED cache
    /\ UNCHANGED <<bootVarsButCalls, block>>

\* ------------------------------------------------------------ specification
InitBase ==
    /\ rows \in {{}, Dataset}
    /\ initRows = rows
    /\ net \in {"down", "flaky"}
    /\ faulted = FALSE
    /\ pc = [f \in Facades |-> "new"]
    /\ dbPersistent = [f \in Facades |-> FALSE]
    /\ persistent = [f \in Facades |-> "unset"]
    /\ conn = [f \in Facades |-> "none"]
    /\ csvGiven = [f \in Facades |-> FALSE]
    /\ idx = [f \in Facades |-> 0]
    /\ log = [f \in Facades |-> <<>>]
    /\ ret = [f \in Facades |-> "none"]
    /\ popAtEntry = [f \in Facades |-> FALSE]
    /\ ctorLog = [f \in Facades |-> <<>>]
    /\ calls = [f \in Facades |-> 0]
    /\ closeCalls = [f \in Facades |-> 0]
    /\ cache = [p \in Procs |-> [m \in Methods |-> <<>>]]
    /\ lastRead = [f \in Facades |-> NoRead]
    /\ block = [f \in Facades |-> "out"]

\* Two processes, one Facade each.
InitRace ==
    /\ InitBase
    /\ hasLocal \in BOOLEAN
    /\ procOf = [f \in Facades |-> f]
    /\ workerEnv \in [Procs -> {"absent", "standalone", "w1"}]

ImportStep(f) ==
    \/ ImportCheck(f)
    \/ Insert1(f)
    \/ Download(f)
    \/ Clear(f)
    \/ Insert2(f)

NextRace ==
    \E f \in Facades :
        \/ \E persist \in BOOLEAN : Construct(f, persist)
        \/ CtorCount(f)
        \/ ImportStep(f)

SpecRace == InitRace /\ [][NextRace]_vars

\* One process holding one Facade, and every call of its API.
Solo == {1}

Init ==
    /\ InitBase
    /\ hasLocal = FALSE
    /\ procOf = [f \in Facades |-> 1]
    /\ workerEnv \in { [p \in Procs |-> IF p = 1 THEN w ELSE "absent"] :
                         w \in {"absent", "standalone", "w1"} }

Next ==
    \E f \in Solo :
        \/ \E persist \in BOOLEAN : Construct(f, persist)
        \/ CtorCount(f)
        \/ ImportStep(f)
        \/ \E given \in BOOLEAN : CallImport(f, given)
        \/ Close(f)
        \/ \E c \in SearchCalls : CachedRead(f, c)
        \/ \E c \in GetCityCalls : CachedRead(f, c)
        \/ \E c \in CountriesCalls : CachedRead(f, c)
        \/ \E c \in StatesCalls : CachedRead(f, c)
        \/ \E c \in CitiesInStateCalls : CachedRead(f, c)
        \/ \E c \in CoordinateCalls : UncachedRead(f, c)
        \/ \E c \in TableInfoCalls : UncachedRead(f, c)

Spec == Init /\ [][Next]_vars

\* One process holding two Facades on the same store: the lru_cache of a
\* method belongs to the class, so both Facades use the same one.
InitShared ==
    /\ InitBase
    /\ hasLocal = FALSE
    /\ procOf = [f \in Facades |-> 1]
    /\ workerEnv = [p \in Procs |-> IF p = 1 THEN "w1" ELSE "absent"]

NextShared ==
    \E f \in Facades :
        \/ \E persist \in BOOLEAN : Construct(f, persist)
        \/ Close(f)
        \/ \E c \in SearchCalls : CachedRead(f, c)
        \/ \E c \in CountriesCalls : CachedRead(f, c)

SpecShared == InitShared /\ [][NextShared]_vars

\* One process holding one Facade that is used through a with-block.
NextWith ==
    \E f \in Solo :
        \/ \E persist \in BOOLEAN : Construct(f, persist)
        \/ CtorCount(f)
        \/ ImportStep(f)
        \/ WithEnter(f)
        \/ \E exc \in BOOLEAN : WithExit(f, exc)
        \/ \E given \in BOOLEAN : CallImport(f, given)
        \/ Close(f)
        \/ \E c \in SearchCalls : CachedRead(f, c)
        \/ \E c \in TableInfoCalls : UncachedRead(f, c)

SpecWith == Init /\ [][NextWith]_vars

\* One process holding one Facade whose searches are written in several ways.
NextForms ==
    \E f \in Solo :
        \/ \E persist \in BOOLEAN : Construct(f, persist)
        \/ CtorCount(f)
        \/ ImportStep(f)
        \/ Close(f)
        \/ \E c \in SearchCalls : CachedRead(f, c)
        \/ \E c \in SearchSpellings : CachedRead(f, c)

SpecForms == Init /\ [][NextForms]_vars

\* ------------------------------------------------------------------ claims
Has(lg, e) == \E i \in 1 .. Len(lg) : lg[i] = e

ImportPcs == {"check", "ins1", "download", "clear", "ins2"}

\* The environment makes the process of f a non-worker / a worker.
NonWorkerEnv(p) == workerEnv[p] \in {"absent", "standalone"}

HasRead(f) == lastRead[f].call.m # "none"

\* C1 (as claimed): an import_city_data call entered on a store that holds rows
\* writes nothing to the store: it neither calls import_from_csv nor runs the
\* DELETE on city_data, so the rows it found are still there.
C1_NoWriteWhenPopulated ==
    \A f \in Facades :
        popAtEntry[f] =>
            /\ ~Has(log[f], "import1")
            /\ ~Has(log[f], "clear")
            /\ ~Has(log[f], "import2")
            /\ rows # {}

\* C2: a cached read whose call equals an earlier, still cached call of the
\* Facade returns that call's result without a repository query; a cached read
\* whose argument values differ from those of every cached call of the Facade
\* is a miss and invokes the repository (once).
Args(c) == IF c.m = "search_cities" THEN SearchArgs(c) ELSE c.pos

\* The step is a read of call c on Facade f.
ReadStep(f, c) ==
    /\ pc[f] = "ready" /\ pc'[f] = "ready"
    /\ calls'[f] = calls[f] + 1
    /\ closeCalls'[f] = closeCalls[f]
    /\ lastRead'[f].call.m = c.m
    /\ lastRead'[f].call = c

C2_Step(f, c) ==
    ReadStep(f, c) =>
        LET line == cache[procOf[f]][c.m]
            mine == { i \in 1 .. Len(line) : line[i].key[1] = f }
        IN /\ \A i \in mine :
                  line[i].call = c =>
                      /\ lastRead'[f].ok
                      /\ ~lastRead'[f].queried
                      /\ lastRead'[f].val = line[i].val
           /\ (\A i \in mine : Args(line[i].call) # Args(c)) =>
                  /\ lastRead'[f].queried
                  /\ lastRead'[f].ok =>
                        /\ lastRead'[f].val = Query(c, rows)
                        /\ \E j \in 1 .. Len(cache'[procOf[f]][c.m]) :
                              /\ cache'[procOf[f]][c.m][j].call = c
                              /\ cache'[procOf[f]][c.m][j].val = Query(c, rows)

C2_CacheHitAndMiss ==
    [][\A f \in Facades :
          /\ \A c \in SearchCalls : C2_Step(f, c)
          /\ \A c \in GetCityCalls : C2_Step(f, c)
          /\ \A c \in CountriesCalls : C2_Step(f, c)
          /\ \A c \in StatesCalls : C2_Step(f, c)
          /\ \A c \in CitiesInStateCalls : C2_Step(f, c)]_vars

\* a hit on search_cities("a") while search_cities("a", user_lat=40.0) is cached too
C2_Witness ==
    \E f \in Facades :
        /\ lastRead[f].call = Call("search_cities", <<"a">>, <<>>)
        /\ ~lastRead[f].queried
        /\ Len(cache[procOf[f]]["search_cities"]) = 2

\* C3: a Facade built in a process whose worker id is set and is not
\* 'standalone' has called neither ensure_schema_exists nor the row count nor
\* import_city_data; one built where it is absent or 'standalone' called
\* ensure_schema_exists first and, the table being empty, import_city_data.
C3_BootstrapGating ==
    \A f \in Solo :
        /\ (~NonWorkerEnv(procOf[f]) /\ pc[f] # "new" /\ calls[f] = 0) =>
               /\ pc[f] = "ready"
               /\ ctorLog[f] = <<>>
               /\ log[f] = <<>>
               /\ ret[f] = "none"
        /\ (NonWorkerEnv(procOf[f]) /\ pc[f] # "new") =>
               /\ Len(ctorLog[f]) >= 1
               /\ ctorLog[f][1] = "ensure"
        /\ (NonWorkerEnv(procOf[f]) /\ pc[f] \notin {"new", "count", "raised"}
              /\ initRows = {}) =>
               ctorLog[f] = <<"ensure", "count", "import">>

\* a worker built on an empty store: no bootstrap step was taken
C3_Witness ==
    \E f \in Solo :
        /\ workerEnv[procOf[f]] = "w1"
        /\ pc[f] = "ready"
        /\ rows = {}
        /\ ctorLog[f] = <<>>

\* C4 (as claimed): once close() was called on a non-persistent Facade, every
\* read made afterwards raises, whatever its arguments.
C4_ReadsFailAfterClose ==
    \A f \in Facades :
        (persistent[f] = "False" /\ HasRead(f) /\ lastRead[f].handle = "closed") =>
            ~lastRead[f].ok

C6_ImportNeverRaises ==
    \A f \in Facades :
        /\ ret[f] \in {"none", "running", "True", "False"}
        /\ pc[f] \in ImportPcs <=> ret[f] = "running"
        /\ pc[f] \in ImportPcs => ENABLED ImportStep(f)

\* every step of the call failed in turn, the retried import last: it returned False
C6_Witness ==
    \E f \in Facades :
        /\ ret[f] = "False"
        /\ faulted
        /\ log[f] = <<"import1", "except", "download", "clear", "import2">>

\* C7: in a non-worker process with an empty store, no local source and a
\* network that is down, __init__ does not raise on account of the import, the
\* store is empty once the Facade is built, and the reads return empty results.
NoIngestion(f) ==
    /\ NonWorkerEnv(procOf[f])
    /\ initRows = {}
    /\ ~hasLocal
    /\ net = "down"

EmptyResult(c) == IF c.m = "get_table_info" THEN <<0>> ELSE <<>>

C7_GracefulDegradation ==
    \A f \in Solo :
        NoIngestion(f) =>
            /\ pc[f] = "raised" => ctorLog[f] = <<"ensure">>
            /\ pc[f] \in ImportPcs \cup {"count"} =>
                   ENABLED (CtorCount(f) \/ ImportStep(f))
            /\ (pc[f] = "ready" /\ calls[f] = 0) =>
                   /\ rows = {}
                   /\ ret[f] = "False"
            /\ (rows = {} /\ HasRead(f) /\ lastRead[f].handle = "open") =>
                   /\ lastRead[f].ok
                   /\ lastRead[f].val = EmptyResult(lastRead[f].call)

\* the import failed during construction; a search on the Facade returns []
C7_Witness ==
    \E f \in Solo :
        /\ NoIngestion(f)
        /\ pc[f] = "ready"
        /\ Has(ctorLog[f], "import")
        /\ rows = {}
        /\ lastRead[f].call.m = "search_cities"
        /\ lastRead[f].ok /\ lastRead[f].val = <<>>

\* C8: after the first attempt raised, with csv_path None, the recovery runs
\* once and in the order forced download, DELETE (only after the download
\* succeeded), one re-import without a download; with an explicit csv_path none
\* of the three happens and the call returns False.
FirstAttempts == { <<>>, <<"import1">>, <<"import1", "fetch">> }

RecoverySteps == { <<>>, <<"download">>, <<"download", "clear">>,
                   <<"download", "clear", "import2">> }

C8_RecoveryProtocol ==
    \A f \in Facades :
        /\ log[f] \in FirstAttempts \cup
                      { h \o <<"except">> \o t : h \in FirstAttempts, t \in RecoverySteps }
        /\ Has(log[f], "clear") => hasLocal
        /\ (Has(log[f], "except") /\ ~csvGiven[f] /\ ret[f] # "running") =>
               Has(log[f], "download")
        /\ csvGiven[f] =>
               /\ ~Has(log[f], "download")
               /\ ~Has(log[f], "clear")
               /\ ~Has(log[f], "import2")
               /\ (Has(log[f], "except") /\ ret[f] # "running") => ret[f] = "False"

\* the first import raised, the recovery ran through and its re-import succeeded
C8_Witness ==
    \E f \in Facades :
        /\ ~csvGiven[f]
        /\ log[f] = <<"import1", "except", "download", "clear", "import2">>
        /\ ret[f] = "True"

\* C9: with exactly one non-worker among the processes, only its Facade runs
\* ensure_schema_exists, the row count and import_city_data while being built,
\* and import_city_data is entered at most once in all.
BootstrapImports ==
    { <<f, i>> \in Facades \X (1 .. 3) : i <= Len(ctorLog[f]) /\ ctorLog[f][i] = "import" }

C9_ExactlyOnceBootstrap ==
    Cardinality({ p \in Procs : NonWorkerEnv(p) }) = 1 =>
        /\ \A f \in Facades :
              ~NonWorkerEnv(procOf[f]) =>
                  /\ ctorLog[f] = <<>>
                  /\ log[f] = <<>>
                  /\ pc[f] \in {"new", "ready"}
        /\ Cardinality(BootstrapImports) <= 1

\* a master and a worker are both built, the master having imported the dataset
C9_Witness ==
    /\ Cardinality({ p \in Procs : NonWorkerEnv(p) }) = 1
    /\ \A f \in Facades : pc[f] = "ready"
    /\ initRows = {}
    /\ rows = Dataset
    /\ Cardinality(BootstrapImports) = 1

\* C10: two non-worker processes bootstrapping an empty store concurrently,
\* nothing but their race going wrong, leave exactly the source dataset in it.
C10_RaceTolerance ==
    ( /\ \A p \in Procs : NonWorkerEnv(p)
      /\ initRows = {}
      /\ ~faulted
      /\ \A f \in Facades : pc[f] = "ready" ) =>
        rows = Dataset

\* both imported at once: one hit the other's rows, cleared the table and re-imported
C10_Witness ==
    /\ \A p \in Procs : NonWorkerEnv(p)
    /\ initRows = {}
    /\ ~faulted
    /\ \A f \in Facades : pc[f] = "ready"
    /\ \E f \in Facades : Has(log[f], "clear")
    /\ rows = Dataset

\* C11 (as claimed): no step of a construction, an import_city_data call, a
\* read or a close removes a record that is in the store: records are only added.
C11_RecordsOnlyAdded == [][rows \subseteq rows']_vars

\* C12: the cache of each method never holds more than its maxsize entries
\* (5000, 1000, 1, 100, 500), its keys are distinct, and every successful cached
\* read makes its key the most recently used one, keeps the order of the
\* others and, on overflow, drops exactly the least recently used ones.
Keys(line) == [i \in 1 .. Len(line) |-> line[i].key]

C12_Use(f, c) ==
    (ReadStep(f, c) /\ lastRead'[f].ok) =>
        LET k == MakeKey(f, c)
            others == SelectSeq(Keys(cache[procOf[f]][c.m]), LAMBDA x : x # k)
            room == Maxsize(c.m) - 1
            kept == IF Len(others) > room
                    THEN SubSeq(others, Len(others) - room + 1, Len(others))
                    ELSE others
        IN Keys(cache'[procOf[f]][c.m]) = kept \o <<k>>

C13_CloseIdempotent ==
    /\ [](\A f \in Facades :
            /\ (pc[f] = "ready" /\ calls[f] < MaxCalls /\ CanRun(f)) => ENABLED Close(f)
            /\ closeCalls[f] >= 1 =>
                   /\ pc[f] # "raised"
                   /\ conn[f] = IF persistent[f] = "True" THEN "open" ELSE "closed")
    /\ [][\A f \in Facades :
             (closeCalls[f] >= 1 /\ closeCalls'[f] = closeCalls[f] + 1) =>
                 /\ pc'[f] = "ready"
                 /\ conn' = conn
                 /\ persistent' = persistent
                 /\ rows' = rows
                 /\ readVars' = readVars]_vars

\* close() three times in a row on a non-persistent Facade
C13_Witness ==
    \E f \in Facades :
        /\ persistent[f] = "False"
        /\ closeCalls[f] = 3
        /\ pc[f] = "ready"
        /\ conn[f] = "closed"

\* C14: leaving a with-block over a Facade calls close() exactly once, whether
\* the block ended normally or raised; a non-persistent Facade then has its
\* handle closed, and an exception raised in the block is still raised after
\* the exit.
C14_ScopedRelease ==
    /\ [](\A f \in Facades :
            /\ (block[f] = "in" /\ pc[f] = "ready") =>
                   /\ ENABLED WithExit(f, TRUE)
                   /\ ENABLED WithExit(f, FALSE)
            /\ (block[f] \in {"left", "propagated"} /\ persistent[f] # "True") =>
                   conn[f] = "closed")
    /\ [][\A f \in Facades :
             (block[f] = "in" /\ block'[f] # "in") =>
                 /\ closeCalls'[f] = closeCalls[f] + 1
                 /\ block'[f] \in {"left", "propagated"}
                 /\ conn'[f] = IF persistent[f] = "True" THEN conn[f] ELSE "closed"]_vars

\* a non-persistent Facade was read on its open handle and its with-block
\* raised: the exit closed the handle, once, and the exception went on
C14_Witness ==
    \E f \in Facades :
        /\ block[f] = "propagated"
        /\ persistent[f] = "False"
        /\ closeCalls[f] = 1
        /\ conn[f] = "closed"
        /\ HasRead(f) /\ lastRead[f].handle = "open"

\* C15 (as claimed): a cached read that is served from the cache returns what
\* the repository would return for the same call on the store as it is at the
\* time of the call.
C15_Fresh(f, c) ==
    (ReadStep(f, c) /\ lastRead'[f].ok /\ ~lastRead'[f].queried) =>
        lastRead'[f].val = Query(c, rows)

C15_NoStaleResult ==
    [][\A f \in Facades :
          /\ \A c \in SearchCalls : C15_Fresh(f, c)
          /\ \A c \in GetCityCalls : C15_Fresh(f, c)
          /\ \A c \in CountriesCalls : C15_Fresh(f, c)
          /\ \A c \in StatesCalls : C15_Fresh(f, c)
          /\ \A c \in CitiesInStateCalls : C15_Fresh(f, c)]_vars

\* C16 (as claimed): a search_cities call that binds the same values to the
\* six parameters as a call of the Facade that is still cached is served from
\* that entry, without a repository query, however the two calls are written.
C16_SameBinding(f, c) ==
    ReadStep(f, c) =>
        LET line == cache[procOf[f]][c.m]
        IN \A i \in 1 .. Len(line) :
              (line[i].key[1] = f /\ SearchArgs(line[i].call) = SearchArgs(c)) =>
                  /\ ~lastRead'[f].queried
                  /\ lastRead'[f].val = line[i].val

C16_KeyIsBoundTuple ==
    [][\A f \in Facades : \A c \in SearchCalls \cup SearchSpellings :
          C16_SameBinding(f, c)]_vars

\* C17: a non-worker construction calls ensure_schema_exists, then reads the
\* row count, then at most one import_city_data, in this order; the import is
\* started only on a row count of 0 or a row count that could not be read;
\* a construction that saw a count above 0 imports, downloads and deletes nothing.
C17_BootstrapOrdering ==
    /\ [](\A f \in Solo :
            /\ ctorLog[f] \in { <<>>, <<"ensure">>, <<"ensure", "count">>,
                                <<"ensure", "count", "import">> }
            /\ (calls[f] = 0 /\ ~Has(ctorLog[f], "import")) =>
                   /\ log[f] = <<>>
                   /\ ret[f] = "none"
                   /\ rows = initRows)
    /\ [][\A f \in Solo :
             /\ (~Has(ctorLog[f], "import") /\ Has(ctorLog'[f], "import")) =>
                    /\ pc[f] = "count"
                    /\ rows = {} \/ faulted' # faulted
             /\ (pc[f] = "count" /\ pc'[f] # "count" /\ rows # {} /\ faulted' = faulted) =>
                    /\ pc'[f] = "ready"
                    /\ ctorLog'[f] = <<"ensure", "count">>]_vars

\* a non-worker was built on a populated store: schema, count, and nothing else
C17_Witness ==
    \E f \in Solo :
        /\ NonWorkerEnv(procOf[f])
        /\ pc[f] = "ready"
        /\ calls[f] = 0
        /\ ctorLog[f] = <<"ensure", "count">>
        /\ rows = Dataset

\* C18: with one process on the store, when import_city_data returns True the
\* store holds rows, and either it held rows when the call was entered or an
\* import attempt of the call wrote the whole source.
C18_TrueMeansPopulated ==
    /\ [](\A f \in Solo :
            ret[f] = "True" =>
                /\ rows # {}
                /\ \/ popAtEntry[f] /\ log[f] = <<>>
                   \/ /\ Has(log[f], "import1") \/ Has(log[f], "import2")
                      /\ idx[f] > 0
                      /\ rows = 1 .. idx[f])
    /\ [][\A f \in Solo :
             (ret[f] = "running" /\ ret'[f] = "True") => Cardinality(rows') > 0]_vars

\* the store was empty on entry, the first import wrote the dataset: True
C18_Witness ==
    \E f \in Solo :
        /\ ret[f] = "True"
        /\ ~popAtEntry[f]
        /\ ~Has(log[f], "except")
        /\ Has(log[f], "import1")
        /\ rows = Dataset

\* C19: a first import_from_csv that returns without raising and wrote nothing
\* makes import_city_data return False at once; the forced download is
\* started only by the except clause, that is after the row-count check or the
\* first import raised.
Last(lg) == lg[Len(lg)]

C19_ZeroRowsNoRecovery ==
    [][\A f \in Facades :
          /\ ( /\ pc[f] = "check" /\ pc'[f] # "check"
               /\ Has(log'[f], "import1")
               /\ ~Has(log'[f], "except")
               /\ rows' = {} ) =>
                 \/ pc'[f] = "ins1"
                 \/ pc'[f] = "ready" /\ ret'[f] = "False"
          /\ (pc[f] # "download" /\ pc'[f] = "download") =>
                 /\ pc[f] \in {"check", "ins1"}
                 /\ Len(log'[f]) > Len(log[f])
                 /\ Last(log'[f]) = "except"
                 /\ ~csvGiven[f]]_vars

\* the default source held no usable row: one import, no exception, False
C19_Witness ==
    \E f \in Facades :
        /\ ~csvGiven[f]
        /\ hasLocal
        /\ log[f] = <<"import1">>
        /\ ret[f] = "False"
        /\ rows = {}

\* C20: in a process with several Facades, a cached read on a Facade is served
\* from the cache only out of an entry which that same Facade stored; a call that
\* the Facade has no entry for queries the repository, whatever the other
\* Facades have cached.
C20_Isolated(f, c) ==
    ReadStep(f, c) =>
        LET line == cache[procOf[f]][c.m]
            mine == { i \in 1 .. Len(line) : line[i].key[1] = f /\ line[i].call = c }
        IN /\ mine = {} => lastRead'[f].queried
           /\ ~lastRead'[f].queried =>
                  \E i \in mine : lastRead'[f].val = line[i].val

C20_CacheIsolation ==
    [][\A f \in Facades :
          /\ \A c \in SearchCalls : C20_Isolated(f, c)
          /\ \A c \in CountriesCalls : C20_Isolated(f, c)]_vars

\* both Facades of the process made the same search; each queried the
\* repository and each has its own entry
C20_Witness ==
    /\ procOf[1] = procOf[2]
    /\ \A f \in Facades :
          /\ lastRead[f].call = Call("search_cities", <<"a">>, <<>>)
          /\ lastRead[f].queried /\ lastRead[f].ok
    /\ Len(cache[1]["search_cities"]) = 2

\* C21: a cached read that misses while the repository cannot answer raises to
\* the caller and leaves every cache as it was; a read that repeats the call
\* which last failed on the Facade queries the repository again.
C21_Failed(f, c) ==
    ReadStep(f, c) =>
        /\ (Find(cache[procOf[f]][c.m], MakeKey(f, c)) = 0 /\ ~Reachable(f)) =>
               /\ ~lastRead'[f].ok
               /\ lastRead'[f].queried
               /\ cache' = cache
        /\ ~lastRead'[f].ok => cache' = cache
        /\ (lastRead[f].call.m = c.m /\ lastRead[f].call = c /\ ~lastRead[f].ok) =>
               lastRead'[f].queried

C21_FailedReadStoresNothing ==
    [][\A f \in Facades :
          /\ \A c \in SearchCalls : C21_Failed(f, c)
          /\ \A c \in GetCityCalls : C21_Failed(f, c)
          /\ \A c \in CountriesCalls : C21_Failed(f, c)
          /\ \A c \in StatesCalls : C21_Failed(f, c)
          /\ \A c \in CitiesInStateCalls : C21_Failed(f, c)]_vars

\* search_cities("a") was cached, the handle was closed, then
\* search_cities("a", user_lat=40.0) raised: the cache still holds the one entry
C21_Witness ==
    \E f \in Facades :
        /\ lastRead[f].call = Call("search_cities", <<"a">>, << <<"user_lat", "40.0">> >>)
        /\ ~lastRead[f].ok
        /\ lastRead[f].queried
        /\ Len(cache[procOf[f]]["search_cities"]) = 1
        /\ cache[procOf[f]]["search_cities"][1].call = Call("search_cities", <<"a">>, <<>>)

====
